---- MODULE Spec2Model ----
(***************************************************************************)
(* State-machine model of the MERLIN AR frame-distribution broker:         *)
(*   - the downstream broadcast server   (p1/src/ar/bridge.rs)             *)
(*   - the fan-out bus and its subscription stream                         *)
(*                            (gateway/src/main.rs, gateway/src/schema.rs) *)
(*   - the upstream ingest client  (gateway/src/ar/jetson_client.rs)       *)
(*   - the audio filters of the capture node  (p1/src/audio/filters.rs)    *)
(* Each component has its own next-state relation and specification; the   *)
(* variables of the other components keep their initial values.            *)
(* Every action is one poll of a task, from the await that resumed it to   *)
(* the next await that suspends it; tasks are observed at their awaits.    *)
(***************************************************************************)
EXTENDS Integers, Sequences, FiniteSets, TLC

VARIABLES
    \* ---- broadcast server (bridge.rs) ----
    listener,     \* run(): "init" | "listening" | "bind_failed"
    acceptErrs,   \* number of Err results of listener.accept() so far
    hc,           \* hc[c]: position of handle_client for connection c
    st,           \* st[c]: state of the spawned stream_frames task
    frame_id,     \* frame_id[c]: the local counter of stream_frames
    sent,         \* sent[c]: envelopes handed to write.send, in order
    clients,      \* the shared Arc<Mutex<Vec<ConnectedClient>>>
    interval,     \* interval[c]: period of the frame timer of stream_frames
    lastRx,       \* history: the text read last by a receive loop
    requested,    \* history: requested[c]: target_fps of the last
                  \* ConfigureStream read from c, 0 if none
    \* ---- fan-out bus (tokio broadcast channel) and subscriptions ----
    bus,          \* [buffer, pos, rx_cnt, closed]
    sub,          \* sub[s]: [state, next] of the ar_stream receiver
    delivered,    \* delivered[s]: scenes yielded by the stream, in order
    published,    \* history: scenes stored in the ring, in order
    subAt,        \* history: ring position at which s subscribed
    endReason,    \* history: why the stream of s ended
    sim_frame_id, \* frame_id of simulate_ar_frames
    \* ---- ingest client (jetson_client.rs) ----
    ingestPc,     \* position of start()/connect_and_stream()
    attempts,     \* number of connect_async calls so far
    ingestLast,   \* history: how the last connect_and_stream call ended
    waits,        \* history: number of sleeps start() has begun
    sleepSecs,    \* history: duration of the sleep begun last, in seconds
    rxCount,      \* history: text messages read in the current session
    rxLast,       \* history: the text message read last
    rxOutcome,    \* history: what connect_and_stream did with rxLast
    \* ---- protocol codec ----
    codec,        \* a JSON object and its decodings
    \* ---- audio filters (p1/src/audio/filters.rs) ----
    ng,           \* the NoiseGate
    ngIn,         \* history: the slice handed to NoiseGate::process last
    ngOut,        \* that slice after the call
    ngQuiet,      \* history: every sample processed since the gate was
                  \* made or reset was below the threshold
    ngN,          \* number of samples the gate has processed
    ngWasOpen,    \* history: a process() call has left the gate Open
    nz,           \* the Normalizer
    nzIn,         \* history: the slice handed to Normalizer::process last
    nzOut,        \* that slice after the call
    nzN,          \* number of samples the normalizer has processed
    \* ---- WAV recorder (p1/src/audio/wav_writer.rs) ----
    wav,          \* the WavFileWriter
    now,          \* the local clock, in ticks
    wavCalls,     \* history: number of calls made on the writer
    wavLast,      \* history: the last call, what it returned, and whether
                  \* the call before it was a finish_writing that returned
                  \* Ok(Some(..))
    wavAccepted,  \* history: samples of the write_samples calls that
                  \* returned Ok since start_writing last ran
    wavRotated    \* history: a write_samples call has rotated the file

vars == <<listener, acceptErrs, hc, st, frame_id, sent, clients,
          interval, lastRx, requested,
          bus, sub, delivered, published, subAt, endReason, sim_frame_id,
          ingestPc, attempts, ingestLast, waits, sleepSecs,
          rxCount, rxLast, rxOutcome, codec,
          ng, ngIn, ngOut, ngQuiet, ngN, ngWasOpen, nz, nzIn, nzOut, nzN,
          wav, now, wavCalls, wavLast, wavAccepted, wavRotated>>

bridgeVars == <<listener, acceptErrs, hc, st, frame_id, sent, clients,
                interval, lastRx, requested>>
busVars    == <<bus, sub, delivered, published, subAt, endReason>>
simVars    == <<sim_frame_id>>
ingestVars == <<ingestPc, attempts, ingestLast, waits, sleepSecs,
                rxCount, rxLast, rxOutcome>>
codecVars  == <<codec>>
gateVars   == <<ng, ngIn, ngOut, ngQuiet, ngN, ngWasOpen>>
normVars   == <<nz, nzIn, nzOut, nzN>>
wavVars    == <<wav, now, wavCalls, wavLast, wavAccepted, wavRotated>>
audioVars  == <<gateVars, normVars, wavVars>>

(***************************************************************************)
(* Bounds of the model.                                                    *)
(***************************************************************************)
MaxConns == 2
MaxFrames == 3
MaxAcceptErrs == 1
BusCapacity == 2
MaxSubs == 2
MaxPublish == 4
MaxAttempts == 3
MaxRx == 3
\* Samples a filter processes in all, and the longest slice of one call
MaxSamples == 4
MaxSlice == 2
\* Sample counts NoiseGate::new and Normalizer::new compute from the
\* milliseconds and the sample rate, scaled down
AttackSamples == 2
ReleaseSamples == 4
WindowSize == 2
\* Calls made on the WAV writer, the last reading of the clock, and the
\* length of a day in ticks
MaxCalls == 5
MaxClock == 3
TicksPerDay == 2
\* start(): sleep(Duration::from_secs(5))
BackoffSecs == 5

\* frame_id is a u32; the model scales its range 2^32 down to FrameIdMod values
\* (TLC's integers are 32-bit) and keeps the wrap-around of wrapping_add.
FrameIdMod == 8

Conns == 1..MaxConns
Subs == 1..MaxSubs
\* Microsecond timestamps carried by the frames a producer sends
Timestamps == {1000, 2000}
\* Clock readings of simulate_ar_frames; the bus never looks at them
SimTimestamps == {1000}

(***************************************************************************)
(* ======================  Downstream broadcast server  ================== *)
(***************************************************************************)

\* ServerMessage::Connected / ServerMessage::Frame(frame) as they go on the wire.
\* The wall-clock timestamp of a frame is not recorded.
NoFrameId == -1
ConnectedMsg == [type |-> "Connected", frame_id |-> NoFrameId]
FrameMsg(id) == [type |-> "Frame", frame_id |-> id]

\* The variants of ClientMessage
ClientMessages == {"Connect", "Subscribe", "ConfigureStream",
                   "HandTrackingUpdate", "InteractionEvent", "Ping"}
\* Text that does not decode as ClientMessage.
UndecodableText == [garbage |-> 0]

QualityPresets == {"Low", "Medium", "High", "Adaptive"}

\* {"ConfigureStream":{"target_fps":fps,"quality":q}}
ConfigureStreamJson(fps, q) ==
    [ConfigureStream |-> [target_fps |-> fps, quality |-> q]]

\* The texts a client may send: one per variant of ClientMessage, two
\* stream configurations, and two texts that do not decode (an unknown key,
\* a ConfigureStream without quality).
ClientTexts ==
    {[Connect |-> [client_id |-> "quest", protocol_version |-> 256,
                   capabilities |-> "object"]],
     [Subscribe |-> [streams |-> "array"]],
     ConfigureStreamJson(10, "Low"),
     ConfigureStreamJson(60, "Adaptive"),
     [HandTrackingUpdate |-> [hands |-> "object"]],
     [InteractionEvent |-> [event_type |-> "Tap"]],
     [Ping |-> [timestamp |-> 1000]],
     UndecodableText,
     [ConfigureStream |-> [target_fps |-> 10]]}

\* No text has been read yet
NoText == [none |-> 0]

\* The fields a variant of ClientMessage requires (an Option may be missing)
ClientMessageFields ==
    [Connect |-> {"client_id", "protocol_version", "capabilities"},
     Subscribe |-> {"streams"},
     ConfigureStream |-> {"target_fps", "quality"},
     HandTrackingUpdate |-> {"hands"},
     InteractionEvent |-> {"event_type"},
     Ping |-> {"timestamp"}]

\* serde_json::from_str::<ClientMessage>: an externally tagged enum, i.e. an
\* object with the variant name as its single key and the fields under it.
DecodeClientMessage(j) ==
    IF \E k \in ClientMessages :
          /\ DOMAIN j = {k}
          /\ ClientMessageFields[k] \subseteq DOMAIN j[k]
          /\ k = "ConfigureStream" => j[k].quality \in QualityPresets
    THEN LET k == CHOOSE k \in ClientMessages : DOMAIN j = {k}
         IN  [ok |-> TRUE, kind |-> k, fields |-> j[k]]
    ELSE [ok |-> FALSE]

\* StreamConfig::default()
StreamConfigDefault ==
    [target_fps |-> 30, quality |-> "Medium", enable_compression |-> FALSE]

\* ARBridgeServer::new: the configuration of the server; run() clones it
\* for every connection.
ServerConfig == StreamConfigDefault

\* Duration::from_secs_f32(1.0 / target_fps as f32), in whole microseconds
frame_interval(config) == 1000000 \div config.target_fps

\* Mutant of wrapping_add1: the counter goes past the largest value.
wrapping_add1_noWrap(x) == x + 1

\* u32::wrapping_add(1)
wrapping_add1(x) == (x + 1) % FrameIdMod

\* Mutant of abort: the handle is dropped without cancelling the task.
abort_detachOnly(t) == t

\* JoinHandle::abort(): cancels a task that has not finished.
abort(t) == IF t = "running" THEN "aborted" ELSE t

\* Mutant of SpawnStream: the counter goes on from the one of the previous
\* connection.
SpawnStream_sharedCounter(c) ==
    /\ st' = [st EXCEPT ![c] = "running"]
    /\ frame_id' = [frame_id EXCEPT ![c] = IF c > 1 THEN frame_id[c - 1] ELSE 0]
    /\ interval' = [interval EXCEPT ![c] = frame_interval(ServerConfig)]

\* tokio::spawn of stream_frames: the task computes its frame interval from
\* its copy of the server configuration and starts with frame_id = 0.
SpawnStream(c) ==
    /\ st' = [st EXCEPT ![c] = "running"]
    /\ frame_id' = [frame_id EXCEPT ![c] = 0]
    /\ interval' = [interval EXCEPT ![c] = frame_interval(ServerConfig)]

\* run(): TcpListener::bind(&self.bind_addr).await?
Bind ==
    /\ listener = "init"
    /\ \E ok \in BOOLEAN :
         listener' = IF ok THEN "listening" ELSE "bind_failed"
    /\ UNCHANGED <<acceptErrs, hc, st, frame_id, interval, sent, clients>>
    /\ UNCHANGED <<lastRx, requested>>
    /\ UNCHANGED <<busVars, simVars, ingestVars, codecVars, audioVars>>

\* Mutant of Accept: the accept loop runs whether the bind succeeded or not.
Accept_withoutBind(c) ==
    /\ listener \in {"listening", "bind_failed"}
    /\ hc[c] = "none"
    /\ \A d \in Conns : d < c => hc[d] # "none"
    /\ hc' = [hc EXCEPT ![c] = "upgrade"]
    /\ UNCHANGED <<listener, acceptErrs, st, frame_id, interval, sent, clients>>
    /\ UNCHANGED <<lastRx, requested>>
    /\ UNCHANGED <<busVars, simVars, ingestVars, codecVars, audioVars>>

\* Mutant of Accept: handle_client is awaited inside the accept loop, the
\* next accept waits for the previous connection to return.
Accept_afterPreviousReturned(c) ==
    /\ listener = "listening"
    /\ hc[c] = "none"
    /\ \A d \in Conns : d < c =>
          hc[d] \in {"ret_ok", "ret_err_upgrade", "ret_err_ack", "ret_err_read"}
    /\ hc' = [hc EXCEPT ![c] = "upgrade"]
    /\ UNCHANGED <<listener, acceptErrs, st, frame_id, interval, sent, clients>>
    /\ UNCHANGED <<lastRx, requested>>
    /\ UNCHANGED <<busVars, simVars, ingestVars, codecVars, audioVars>>

\* run(): listener.accept() -> Ok: handle_client is spawned in its own task.
Accept(c) ==
    /\ listener = "listening"
    /\ hc[c] = "none"
    /\ \A d \in Conns : d < c => hc[d] # "none"
    /\ hc' = [hc EXCEPT ![c] = "upgrade"]
    /\ UNCHANGED <<listener, acceptErrs, st, frame_id, interval, sent, clients>>
    /\ UNCHANGED <<lastRx, requested>>
    /\ UNCHANGED <<busVars, simVars, ingestVars, codecVars, audioVars>>

\* run(): listener.accept() -> Err: logged, the loop continues.
AcceptError ==
    /\ listener = "listening"
    /\ acceptErrs < MaxAcceptErrs
    /\ acceptErrs' = acceptErrs + 1
    /\ UNCHANGED <<listener, hc, st, frame_id, interval, sent, clients>>
    /\ UNCHANGED <<lastRx, requested>>
    /\ UNCHANGED <<busVars, simVars, ingestVars, codecVars, audioVars>>

\* Mutant of Upgrade: the streaming task is started as soon as the upgrade
\* succeeds, before the acknowledgement is sent.
Upgrade_spawnsStreamFirst(c) ==
    /\ hc[c] = "upgrade"
    /\ \E ok \in BOOLEAN :
         IF ok
         THEN /\ hc' = [hc EXCEPT ![c] = "ack"]
              /\ SpawnStream(c)
         ELSE /\ hc' = [hc EXCEPT ![c] = "ret_err_upgrade"]
              /\ UNCHANGED <<st, frame_id, interval>>
    /\ UNCHANGED <<listener, acceptErrs, sent, clients>>
    /\ UNCHANGED <<lastRx, requested>>
    /\ UNCHANGED <<busVars, simVars, ingestVars, codecVars, audioVars>>

\* handle_client: accept_async(stream).await?
Upgrade(c) ==
    /\ hc[c] = "upgrade"
    /\ \E ok \in BOOLEAN :
         hc' = [hc EXCEPT ![c] = IF ok THEN "ack" ELSE "ret_err_upgrade"]
    /\ UNCHANGED <<listener, acceptErrs, st, frame_id, interval, sent, clients>>
    /\ UNCHANGED <<lastRx, requested>>
    /\ UNCHANGED <<busVars, simVars, ingestVars, codecVars, audioVars>>

\* Mutant of AckSend: the acknowledged client is added to the clients list.
AckSend_registersClient(c) ==
    /\ hc[c] = "ack"
    /\ sent' = [sent EXCEPT ![c] = Append(@, ConnectedMsg)]
    /\ \E ok \in BOOLEAN :
         IF ok
         THEN /\ hc' = [hc EXCEPT ![c] = "recv"]
              /\ SpawnStream(c)
              /\ clients' = Append(clients, c)
         ELSE /\ hc' = [hc EXCEPT ![c] = "ret_err_ack"]
              /\ UNCHANGED <<st, frame_id, interval, clients>>
    /\ UNCHANGED <<listener, acceptErrs>>
    /\ UNCHANGED <<lastRx, requested>>
    /\ UNCHANGED <<busVars, simVars, ingestVars, codecVars, audioVars>>

\* Mutant of AckSend: the streaming task is spawned before the
\* acknowledgement is sent, whatever the send returns.
AckSend_spawnsBeforeSend(c) ==
    /\ hc[c] = "ack"
    /\ sent' = [sent EXCEPT ![c] = Append(@, ConnectedMsg)]
    /\ SpawnStream(c)
    /\ \E ok \in BOOLEAN :
         hc' = [hc EXCEPT ![c] = IF ok THEN "recv" ELSE "ret_err_ack"]
    /\ UNCHANGED <<listener, acceptErrs, clients>>
    /\ UNCHANGED <<lastRx, requested>>
    /\ UNCHANGED <<busVars, simVars, ingestVars, codecVars, audioVars>>

\* handle_client: write.send(welcome).await?, then spawn stream_frames.
AckSend(c) ==
    /\ hc[c] = "ack"
    /\ sent' = [sent EXCEPT ![c] = Append(@, ConnectedMsg)]
    /\ \E ok \in BOOLEAN :
         IF ok
         THEN /\ hc' = [hc EXCEPT ![c] = "recv"]
              /\ SpawnStream(c)
         ELSE /\ hc' = [hc EXCEPT ![c] = "ret_err_ack"]
              /\ UNCHANGED <<st, frame_id, interval>>
    /\ UNCHANGED <<listener, acceptErrs, clients>>
    /\ UNCHANGED <<lastRx, requested>>
    /\ UNCHANGED <<busVars, simVars, ingestVars, codecVars, audioVars>>

\* stream_frames: one iteration of the loop (tick, build frame, send), as
\* long as no more than n envelopes were sent.
StreamFrameUpTo(c, n) ==
    /\ st[c] = "running"
    /\ Len(sent[c]) <= n
    /\ sent' = [sent EXCEPT ![c] = Append(@, FrameMsg(frame_id[c]))]
    /\ \E ok \in BOOLEAN :
         IF ok
         THEN /\ frame_id' = [frame_id EXCEPT ![c] = wrapping_add1(@)]
              /\ UNCHANGED st
         ELSE /\ st' = [st EXCEPT ![c] = "finished"]
              /\ UNCHANGED frame_id
    /\ UNCHANGED <<listener, acceptErrs, hc, interval, clients>>
    /\ UNCHANGED <<lastRx, requested>>
    /\ UNCHANGED <<busVars, simVars, ingestVars, codecVars, audioVars>>

\* ServerMessage::Pong as it would go on the wire
PongMsg == [type |-> "Pong", frame_id |-> NoFrameId]

\* Mutant of handle_client_message: a ConfigureStream sets the frame interval
\* of the running send loops.
handle_client_message_appliesConfig(m) ==
    /\ interval' = IF m.kind = "ConfigureStream"
                   THEN [d \in Conns |->
                           IF st[d] = "running"
                           THEN frame_interval(m.fields) ELSE interval[d]]
                   ELSE interval
    /\ UNCHANGED <<listener, acceptErrs, st, frame_id, sent, clients>>

\* Mutant of handle_client_message: a Ping is answered with a Pong.
handle_client_message_answersPing(m) ==
    /\ sent' = IF m.kind = "Ping"
               THEN [d \in Conns |->
                       IF hc[d] = "recv" THEN Append(sent[d], PongMsg)
                       ELSE sent[d]]
               ELSE sent
    /\ UNCHANGED <<listener, acceptErrs, st, frame_id, interval, clients>>

StreamFrame(c) == StreamFrameUpTo(c, MaxFrames)

\* The send loop followed until its counter has wrapped around
StreamFrameLong(c) == StreamFrameUpTo(c, FrameIdMod + 1)

\* handle_client_message: every arm only logs.
handle_client_message(m) == UNCHANGED <<listener, acceptErrs, st, frame_id, interval, sent, clients>>

\* Mutant of after_text: a text that does not decode makes handle_client
\* return an error.
after_text_returnsOnBadText(ok) == IF ok THEN "recv" ELSE "ret_err_read"

\* handle_client: where the receive loop goes after a text, decoded or not:
\* `if let Ok(client_msg) = ..` has no else, the loop reads on.
after_text(ok) == "recv"

\* handle_client: Message::Text(text) with text j read by the receive loop.
RecvTextOf(c, j) ==
    /\ hc[c] = "recv"
    /\ LET m == DecodeClientMessage(j) IN
       /\ IF m.ok
          THEN handle_client_message(m)
          ELSE UNCHANGED <<listener, acceptErrs, st, frame_id, interval, sent, clients>>
       /\ hc' = [hc EXCEPT ![c] = after_text(m.ok)]
    /\ UNCHANGED <<busVars, simVars, ingestVars, codecVars, audioVars>>

\* A client sends some text; the text is not recorded.
RecvText(c) ==
    \E j \in ClientTexts : RecvTextOf(c, j) /\ UNCHANGED <<lastRx, requested>>

\* A client sends some text; lastRx records it.
RecvTextObserved(c) ==
    \E j \in ClientTexts : RecvTextOf(c, j) /\ lastRx' = j /\ UNCHANGED requested

\* A client sends a ConfigureStream; requested records its target_fps.
RecvConfigureStream(c) ==
    \E j \in ClientTexts :
       /\ DecodeClientMessage(j).ok
       /\ DecodeClientMessage(j).kind = "ConfigureStream"
       /\ RecvTextOf(c, j)
       /\ requested' = [requested EXCEPT ![c] = j.ConfigureStream.target_fps]
       /\ UNCHANGED lastRx

\* handle_client: binary / ping / pong / frame messages fall in `_ => {}`.
RecvOther(c) ==
    /\ hc[c] = "recv"
    /\ UNCHANGED bridgeVars
    /\ UNCHANGED <<busVars, simVars, ingestVars, codecVars, audioVars>>

\* handle_client: the code after the receive loop: write_handle.abort(); Ok(())
AfterLoop(c) ==
    /\ st' = [st EXCEPT ![c] = abort(@)]
    /\ hc' = [hc EXCEPT ![c] = "ret_ok"]

\* handle_client: Message::Close(_) => break
RecvClose(c) ==
    /\ hc[c] = "recv"
    /\ AfterLoop(c)
    /\ UNCHANGED <<listener, acceptErrs, frame_id, interval, sent, clients>>
    /\ UNCHANGED <<lastRx, requested>>
    /\ UNCHANGED <<busVars, simVars, ingestVars, codecVars, audioVars>>

\* handle_client: read.next() yields None, the `while let` loop ends.
RecvEnd(c) ==
    /\ hc[c] = "recv"
    /\ AfterLoop(c)
    /\ UNCHANGED <<listener, acceptErrs, frame_id, interval, sent, clients>>
    /\ UNCHANGED <<lastRx, requested>>
    /\ UNCHANGED <<busVars, simVars, ingestVars, codecVars, audioVars>>

\* Mutant of RecvError: the error of one connection cancels the streaming
\* tasks of all connections.
RecvError_abortsAll(c) ==
    /\ hc[c] = "recv"
    /\ hc' = [hc EXCEPT ![c] = "ret_err_read"]
    /\ st' = [d \in Conns |-> abort(st[d])]
    /\ UNCHANGED <<listener, acceptErrs, frame_id, interval, sent, clients>>
    /\ UNCHANGED <<lastRx, requested>>
    /\ UNCHANGED <<busVars, simVars, ingestVars, codecVars, audioVars>>

\* handle_client: read.next() yields Some(Err(e)): `match msg?` returns Err(e).
\* The JoinHandle is dropped, which detaches the task without cancelling it.
RecvError(c) ==
    /\ hc[c] = "recv"
    /\ hc' = [hc EXCEPT ![c] = "ret_err_read"]
    /\ UNCHANGED <<listener, acceptErrs, st, frame_id, interval, sent, clients>>
    /\ UNCHANGED <<lastRx, requested>>
    /\ UNCHANGED <<busVars, simVars, ingestVars, codecVars, audioVars>>

InitBridge ==
    /\ listener = "init"
    /\ acceptErrs = 0
    /\ hc = [c \in Conns |-> "none"]
    /\ st = [c \in Conns |-> "none"]
    /\ frame_id = [c \in Conns |-> 0]
    /\ sent = [c \in Conns |-> <<>>]
    /\ clients = <<>>
    /\ interval = [c \in Conns |-> 0]
    /\ lastRx = NoText
    /\ requested = [c \in Conns |-> 0]

NextBridge ==
    \/ Bind
    \/ AcceptError
    \/ \E c \in Conns : Accept(c)
    \/ \E c \in Conns : Upgrade(c)
    \/ \E c \in Conns : AckSend(c)
    \/ \E c \in Conns : StreamFrame(c)
    \/ \E c \in Conns : RecvText(c)
    \/ \E c \in Conns : RecvOther(c)
    \/ \E c \in Conns : RecvClose(c)
    \/ \E c \in Conns : RecvEnd(c)
    \/ \E c \in Conns : RecvError(c)

\* The server with clients that ask for a frame rate and listen.
NextCadence ==
    \/ Bind
    \/ \E c \in Conns : Accept(c)
    \/ \E c \in Conns : Upgrade(c)
    \/ \E c \in Conns : AckSend(c)
    \/ \E c \in Conns : StreamFrame(c)
    \/ \E c \in Conns : RecvConfigureStream(c)

\* The server with clients whose texts are recorded, and accepts that
\* never fail.
NextClients ==
    \/ Bind
    \/ \E c \in Conns : Accept(c)
    \/ \E c \in Conns : Upgrade(c)
    \/ \E c \in Conns : AckSend(c)
    \/ \E c \in Conns : StreamFrame(c)
    \/ \E c \in Conns : RecvTextObserved(c)
    \/ \E c \in Conns : RecvOther(c)
    \/ \E c \in Conns : RecvClose(c)
    \/ \E c \in Conns : RecvEnd(c)
    \/ \E c \in Conns : RecvError(c)

(***************************************************************************)
(* ==========================  Fan-out bus  ============================== *)
(* tokio::sync::broadcast as used by the gateway: a ring of slots, each    *)
(* stamped with the position of the value it holds, a tail position, the   *)
(* number of receivers and the closed flag.                                *)
(***************************************************************************)

Scene(ts, id) == [timestamp |-> ts, frame_id |-> id]

RECURSIVE PowerOfTwoFrom(_, _)
PowerOfTwoFrom(p, n) == IF p >= n THEN p ELSE PowerOfTwoFrom(2 * p, n)
\* usize::next_power_of_two, applied by broadcast::channel to the capacity
next_power_of_two(n) == PowerOfTwoFrom(1, n)

\* broadcast::channel::<ARScene>(capacity): the ring is empty, slot i is
\* stamped i - len, and the Receiver returned with the Sender is counted.
channel(capacity) ==
    LET len == next_power_of_two(capacity) IN
    [buffer |-> [i \in 0..(len - 1) |-> [pos |-> i - len, val |-> <<>>]],
     pos    |-> 0,
     rx_cnt |-> 1,
     closed |-> FALSE]

BufLen(b) == Cardinality(DOMAIN b.buffer)

\* Mutant of send: a full ring refuses the new value instead of evicting.
send_refuseWhenFull(b, v) ==
    IF b.rx_cnt = 0 \/ b.pos >= BufLen(b)
    THEN b
    ELSE [b EXCEPT !.buffer[b.pos % BufLen(b)] = [pos |-> b.pos, val |-> <<v>>],
                   !.pos = b.pos + 1]

\* Sender::send(value): Err(SendError) without storing when there is no
\* receiver, else the value overwrites slot pos % len. It never waits.
send(b, v) ==
    IF b.rx_cnt = 0
    THEN b
    ELSE [b EXCEPT !.buffer[b.pos % BufLen(b)] = [pos |-> b.pos, val |-> <<v>>],
                   !.pos = b.pos + 1]

\* Whether Sender::send returns Ok
send_ok(b) == b.rx_cnt > 0

\* Mutant of subscribe_next: the cursor starts at the oldest retained value.
subscribe_oldest(b) == IF b.pos > BufLen(b) THEN b.pos - BufLen(b) ELSE 0

\* Sender::subscribe(): the cursor of the new Receiver
subscribe_next(b) == b.pos

\* Mutant of recv: the slot is returned without comparing its stamp with
\* the cursor.
recv_noStampCheck(b, next) ==
    LET slot == b.buffer[next % BufLen(b)]
    IN  IF slot.val = <<>>
        THEN [kind |-> IF b.closed THEN "Closed" ELSE "Empty",
              val |-> <<>>, next |-> next]
        ELSE [kind |-> "Ok", val |-> slot.val, next |-> next + 1]

\* Receiver::recv() polled once with cursor `next`:
\* kind "Ok" (a value), "Empty" (pending), "Closed", "Lagged" (both Err).
recv(b, next) ==
    LET len  == BufLen(b)
        slot == b.buffer[next % len]
    IN  IF slot.pos = next
        THEN [kind |-> "Ok", val |-> slot.val, next |-> next + 1]
        ELSE IF slot.pos + len = next
        THEN [kind |-> IF b.closed THEN "Closed" ELSE "Empty",
              val |-> <<>>, next |-> next]
        ELSE LET oldest == b.pos - len
                 missed == oldest - next
             IN  IF missed = 0
                 THEN [kind |-> "Ok", val |-> slot.val, next |-> next + 1]
                 ELSE [kind |-> "Lagged", val |-> <<>>, next |-> oldest]

\* Drop of a Receiver
drop_receiver(b) == [b EXCEPT !.rx_cnt = @ - 1]

\* Subscription::ar_stream: ctx.ar_stream_tx.subscribe()
Subscribe(s) ==
    /\ sub[s].state = "none"
    /\ \A t \in Subs : t < s => sub[t].state # "none"
    /\ sub' = [sub EXCEPT ![s] = [state |-> "live", next |-> subscribe_next(bus)]]
    /\ bus' = [bus EXCEPT !.rx_cnt = @ + 1]
    /\ subAt' = [subAt EXCEPT ![s] = bus.pos]
    /\ UNCHANGED <<delivered, published, endReason>>
    /\ UNCHANGED <<bridgeVars, simVars, ingestVars, codecVars, audioVars>>

\* Subscription::ar_stream: one iteration of
\*   while let Ok(scene) = rx.recv().await { yield scene; }
\* Any Err (Lagged or Closed) ends the loop, the stream and the Receiver.
StreamNext(s) ==
    /\ sub[s].state = "live"
    /\ LET r == recv(bus, sub[s].next) IN
       /\ r.kind # "Empty"
       /\ IF r.kind = "Ok"
          THEN /\ delivered' = [delivered EXCEPT ![s] = Append(@, r.val[1])]
               /\ sub' = [sub EXCEPT ![s].next = r.next]
               /\ UNCHANGED <<bus, endReason>>
          ELSE /\ sub' = [sub EXCEPT ![s] = [state |-> "ended", next |-> r.next]]
               /\ endReason' = [endReason EXCEPT ![s] =
                                   IF r.kind = "Lagged" THEN "lagged" ELSE "closed"]
               /\ bus' = drop_receiver(bus)
               /\ UNCHANGED delivered
    /\ UNCHANGED <<published, subAt>>
    /\ UNCHANGED <<bridgeVars, simVars, ingestVars, codecVars, audioVars>>

\* The client of a subscription disconnects: the stream and its Receiver
\* are dropped.
Unsubscribe(s) ==
    /\ sub[s].state = "live"
    /\ sub' = [sub EXCEPT ![s].state = "ended"]
    /\ endReason' = [endReason EXCEPT ![s] = "disconnect"]
    /\ bus' = drop_receiver(bus)
    /\ UNCHANGED <<delivered, published, subAt>>
    /\ UNCHANGED <<bridgeVars, simVars, ingestVars, codecVars, audioVars>>

\* Bus teardown: the last Sender is dropped, the channel is closed.
BusTeardown ==
    /\ ~bus.closed
    /\ bus' = [bus EXCEPT !.closed = TRUE]
    /\ UNCHANGED <<sub, delivered, published, subAt, endReason>>
    /\ UNCHANGED <<bridgeVars, simVars, ingestVars, codecVars, audioVars>>

\* Mutant of Publish: the publisher cannot go on when send returns Err.
Publish_stopsOnSendErr(scene) ==
    /\ send_ok(bus)
    /\ bus' = send(bus, scene)
    /\ published' = Append(published, scene)

\* The effect of a publish on the bus and on the history of stored scenes.
Publish(scene) ==
    /\ bus' = send(bus, scene)
    /\ published' = IF send_ok(bus) THEN Append(published, scene) ELSE published

\* simulate_ar_frames: one iteration of the loop, as long as fewer than n
\* scenes were published.
SimulateFrameUpTo(n) ==
    /\ ~bus.closed
    /\ Len(published) < n
    /\ \E ts \in SimTimestamps : Publish(Scene(ts, sim_frame_id))
    /\ sim_frame_id' = wrapping_add1(sim_frame_id)
    /\ UNCHANGED <<sub, delivered, subAt, endReason>>
    /\ UNCHANGED <<bridgeVars, ingestVars, codecVars, audioVars>>

SimulateFrame == SimulateFrameUpTo(MaxPublish)

\* The simulator followed until its counter has wrapped around
SimulateFrameLong == SimulateFrameUpTo(FrameIdMod + 1)

\* The two frame generators followed beyond the wrap of their counters:
\* the send loops of clients that only listen, and the simulator.
NextGenerators ==
    \/ Bind
    \/ \E c \in Conns : Accept(c)
    \/ \E c \in Conns : Upgrade(c)
    \/ \E c \in Conns : AckSend(c)
    \/ \E c \in Conns : StreamFrameLong(c)
    \/ SimulateFrameLong

InitBus ==
    /\ bus = channel(BusCapacity)
    /\ sub = [s \in Subs |-> [state |-> "none", next |-> 0]]
    /\ delivered = [s \in Subs |-> <<>>]
    /\ published = <<>>
    /\ subAt = [s \in Subs |-> 0]
    /\ endReason = [s \in Subs |-> "none"]
    /\ sim_frame_id = 0

NextBus ==
    \/ SimulateFrame
    \/ BusTeardown
    \/ \E s \in Subs : Subscribe(s)
    \/ \E s \in Subs : StreamNext(s)
    \/ \E s \in Subs : Unsubscribe(s)

(***************************************************************************)
(* =======================  Upstream ingest client  ====================== *)
(***************************************************************************)

\* JSON texts are records: an object is a record of its keys. A sub-payload
\* is represented by the JSON type of its value.
IngestFrameIds == {0, 1}

\* {"timestamp":..,"frame_id":..}: a frame without optional fields
MinimalFrameJson(ts, id) == [timestamp |-> ts, frame_id |-> id]
\* what the bridge serialises for ARFrame::new_dummy
DummyFrameJson(ts, id) ==
    [timestamp |-> ts, frame_id |-> id, protocol_version |-> 256,
     objects |-> "empty_array", hands |-> "null",
     audio_context |-> "null", device_states |-> "null"]
\* a frame whose objects are DetectedObject structs
ObjectsFrameJson(ts, id) ==
    [timestamp |-> ts, frame_id |-> id, protocol_version |-> 256,
     objects |-> "array_of_objects", hands |-> "null",
     audio_context |-> "null", device_states |-> "null"]

FrameJsons ==
    {MinimalFrameJson(ts, id) : ts \in Timestamps, id \in IngestFrameIds}
    \cup {DummyFrameJson(ts, id) : ts \in Timestamps, id \in IngestFrameIds}
    \cup {ObjectsFrameJson(1000, 0), [frame_id |-> 0]}

ConnectedJson == [Connected |-> [server_version |-> "1.0.0", session_id |-> "s"]]
ErrorJson == [Error |-> [code |-> 500, message |-> "m"]]

\* The text messages the producer may send.
IngestTexts ==
    FrameJsons
    \cup {[Frame |-> f] : f \in FrameJsons}
    \cup {ConnectedJson, ErrorJson,
          [Pong |-> [client_timestamp |-> 1000, server_timestamp |-> 2000]],
          [garbage |-> 0]}

DecodeErr == [ok |-> FALSE]

\* The optional field k of JSON object j decodes when it is missing
\* (#[serde(default)]) or holds one of the JSON types in `types`.
OptionalField(j, k, types) == k \notin DOMAIN j \/ j[k] \in types

\* The value of field k of JSON object j, or d when the field is missing
FieldOr(j, k, d) == IF k \in DOMAIN j THEN j[k] ELSE d

\* Mutant of DecodeARFrame: no field carries #[serde(default)].
DecodeARFrame_noDefaults(j) ==
    IF /\ {"timestamp", "frame_id", "protocol_version", "objects", "hands",
           "audio_context", "device_states"} \subseteq DOMAIN j
       /\ j.objects \in {"empty_array", "array_of_strings"}
       /\ j.hands \in {"null", "string"}
       /\ j.audio_context \in {"null", "string"}
       /\ j.device_states \in {"null", "string"}
    THEN [ok |-> TRUE,
          frame |-> [timestamp |-> j.timestamp, frame_id |-> j.frame_id,
                     protocol_version |-> <<j.protocol_version>>,
                     objects |-> j.objects,
                     hands |-> j.hands,
                     audio_context |-> j.audio_context,
                     device_states |-> j.device_states]]
    ELSE DecodeErr

\* serde_json::from_str::<ARFrame> of the gateway. A missing objects field
\* is the empty Vec, a missing Option field is None (JSON null); the
\* protocol_version is <<>> for None and <<v>> for Some(v).
DecodeARFrame(j) ==
    IF /\ {"timestamp", "frame_id"} \subseteq DOMAIN j
       /\ OptionalField(j, "objects", {"empty_array", "array_of_strings"})
       /\ OptionalField(j, "hands", {"null", "string"})
       /\ OptionalField(j, "audio_context", {"null", "string"})
       /\ OptionalField(j, "device_states", {"null", "string"})
    THEN [ok |-> TRUE,
          frame |-> [timestamp |-> j.timestamp, frame_id |-> j.frame_id,
                     protocol_version |->
                         IF "protocol_version" \in DOMAIN j
                         THEN <<j.protocol_version>> ELSE <<>>,
                     objects |-> FieldOr(j, "objects", "empty_array"),
                     hands |-> FieldOr(j, "hands", "null"),
                     audio_context |-> FieldOr(j, "audio_context", "null"),
                     device_states |-> FieldOr(j, "device_states", "null")]]
    ELSE DecodeErr

\* serde_json::from_str::<ARFrame> of p1's protocol: protocol_version and
\* objects carry no #[serde(default)] and are required; the Option fields
\* may be missing; the sub-payloads are structs.
DecodeP1ARFrame(j) ==
    IF /\ {"timestamp", "frame_id", "protocol_version", "objects"}
              \subseteq DOMAIN j
       /\ j.objects \in {"empty_array", "array_of_objects"}
       /\ OptionalField(j, "hands", {"null", "object"})
       /\ OptionalField(j, "audio_context", {"null", "object"})
       /\ OptionalField(j, "device_states",
                        {"null", "empty_array", "array_of_objects"})
    THEN [ok |-> TRUE,
          frame |-> [timestamp |-> j.timestamp, frame_id |-> j.frame_id,
                     protocol_version |-> <<j.protocol_version>>,
                     objects |-> j.objects,
                     hands |-> FieldOr(j, "hands", "null"),
                     audio_context |-> FieldOr(j, "audio_context", "null"),
                     device_states |-> FieldOr(j, "device_states", "null")]]
    ELSE DecodeErr

\* Mutant of DecodeServerMessage: the Frame variant holds p1's ARFrame.
DecodeServerMessage_p1Frame(j) ==
    IF DOMAIN j = {"Connected"}
    THEN IF {"server_version", "session_id"} \subseteq DOMAIN j.Connected
         THEN [ok |-> TRUE, tag |-> "Connected"] ELSE DecodeErr
    ELSE IF DOMAIN j = {"Error"}
    THEN IF "message" \in DOMAIN j.Error
         THEN [ok |-> TRUE, tag |-> "Error"] ELSE DecodeErr
    ELSE IF DOMAIN j = {"Frame"}
    THEN LET f == DecodeP1ARFrame(j.Frame) IN
         IF f.ok THEN [ok |-> TRUE, tag |-> "Frame", frame |-> f.frame]
         ELSE DecodeErr
    ELSE DecodeErr

\* serde_json::from_str::<ServerMessage> of the gateway: an externally tagged
\* enum, i.e. an object with the variant name as its single key.
DecodeServerMessage(j) ==
    IF DOMAIN j = {"Connected"}
    THEN IF {"server_version", "session_id"} \subseteq DOMAIN j.Connected
         THEN [ok |-> TRUE, tag |-> "Connected"] ELSE DecodeErr
    ELSE IF DOMAIN j = {"Error"}
    THEN IF "message" \in DOMAIN j.Error
         THEN [ok |-> TRUE, tag |-> "Error"] ELSE DecodeErr
    ELSE IF DOMAIN j = {"Frame"}
    THEN LET f == DecodeARFrame(j.Frame) IN
         IF f.ok THEN [ok |-> TRUE, tag |-> "Frame", frame |-> f.frame]
         ELSE DecodeErr
    ELSE DecodeErr

\* Mutant of scene_of: the scene is numbered by the gateway, not by the frame.
scene_of_renumbered(frame) == Scene(frame.timestamp, 0)

\* JetsonARClient::broadcast_frame: the scene built from the frame
scene_of(frame) == Scene(frame.timestamp, frame.frame_id)

\* JetsonARClient::broadcast_frame: the Err of send is only logged.
broadcast_frame(frame) == Publish(scene_of(frame))

\* Mutant of handle_text: a Connected envelope is published like a frame.
handle_text_publishesConnected(j) ==
    LET m == DecodeServerMessage(j)
        f == DecodeARFrame(j)
    IN  IF m.ok
        THEN [outcome |-> m.tag,
              frames  |-> IF m.tag = "Frame" THEN <<m.frame>>
                          ELSE IF m.tag = "Connected"
                          THEN <<[timestamp |-> 1000, frame_id |-> 0]>>
                          ELSE <<>>,
              next    |-> "streaming"]
        ELSE IF f.ok
        THEN [outcome |-> "BareFrame", frames |-> <<f.frame>>,
              next |-> "streaming"]
        ELSE [outcome |-> "ParseFailure", frames |-> <<>>,
              next |-> "streaming"]

\* Mutant of handle_text: a text that does not parse ends the session.
handle_text_breaksOnParseFailure(j) ==
    LET m == DecodeServerMessage(j)
        f == DecodeARFrame(j)
    IN  IF m.ok
        THEN [outcome |-> m.tag,
              frames  |-> IF m.tag = "Frame" THEN <<m.frame>> ELSE <<>>,
              next    |-> "streaming"]
        ELSE IF f.ok
        THEN [outcome |-> "BareFrame", frames |-> <<f.frame>>,
              next |-> "streaming"]
        ELSE [outcome |-> "ParseFailure", frames |-> <<>>,
              next |-> "sleeping"]

\* Mutant of handle_text: no fallback to the bare frame.
handle_text_noFallback(j) ==
    LET m == DecodeServerMessage(j)
    IN  IF m.ok
        THEN [outcome |-> m.tag,
              frames  |-> IF m.tag = "Frame" THEN <<m.frame>> ELSE <<>>,
              next    |-> "streaming"]
        ELSE [outcome |-> "ParseFailure", frames |-> <<>>,
              next |-> "streaming"]

\* connect_and_stream, the arm Ok(Message::Text(text)): the envelope is
\* tried first, the bare frame only when the envelope did not decode, the
\* warning only when neither decoded. `frames` are the frames handed to
\* broadcast_frame, `next` is where the loop goes on.
handle_text(j) ==
    LET m == DecodeServerMessage(j)
        f == DecodeARFrame(j)
    IN  IF m.ok
        THEN [outcome |-> m.tag,
              frames  |-> IF m.tag = "Frame" THEN <<m.frame>> ELSE <<>>,
              next    |-> "streaming"]
        ELSE IF f.ok
        THEN [outcome |-> "BareFrame", frames |-> <<f.frame>>,
              next |-> "streaming"]
        ELSE [outcome |-> "ParseFailure", frames |-> <<>>,
              next |-> "streaming"]

\* Mutant of after_connect_and_stream: an Err makes start() return.
after_connect_and_stream_returnOnErr(result) ==
    IF result = "Err" THEN "returned" ELSE "sleeping"

\* Mutant of after_connect_and_stream: an Ok makes start() return.
after_connect_and_stream_returnOnOk(result) ==
    IF result = "Ok" THEN "returned" ELSE "sleeping"

\* start(): what follows a return of connect_and_stream, Ok or Err:
\* the result is logged and the loop sleeps before the next attempt.
after_connect_and_stream(result) == "sleeping"

\* Mutant of backoff_delay: the delay grows with the number of attempts.
backoff_delay_growing(n) == BackoffSecs * n

\* start(): Duration::from_secs(5), whatever the number n of attempts made
backoff_delay(n) == BackoffSecs

\* start(): the sleep that follows connect_and_stream begins.
BeginSleep(result) ==
    /\ ingestPc' = after_connect_and_stream(result)
    /\ waits' = waits + 1
    /\ sleepSecs' = backoff_delay(attempts)

\* start(): the first iteration of the loop calls connect_and_stream.
IngestStart ==
    /\ ingestPc = "init"
    /\ ingestPc' = "connecting"
    /\ attempts' = attempts + 1
    /\ UNCHANGED <<ingestLast, waits, sleepSecs, rxCount, rxLast, rxOutcome>>
    /\ UNCHANGED <<bridgeVars, busVars, simVars, codecVars, audioVars>>

\* connect_and_stream: connect_async(..).await? succeeds.
ConnectOk ==
    /\ ingestPc = "connecting"
    /\ ingestPc' = "streaming"
    /\ UNCHANGED <<attempts, ingestLast, waits, sleepSecs,
                   rxCount, rxLast, rxOutcome>>
    /\ UNCHANGED <<bridgeVars, busVars, simVars, codecVars, audioVars>>

\* connect_and_stream: connect_async(..).await? fails, Err is returned.
ConnectFail ==
    /\ ingestPc = "connecting"
    /\ BeginSleep("Err")
    /\ ingestLast' = "connect_failed"
    /\ UNCHANGED <<attempts, rxCount, rxLast, rxOutcome>>
    /\ UNCHANGED <<bridgeVars, busVars, simVars, codecVars, audioVars>>

\* connect_and_stream: Ok(Message::Text(text)) with text j.
RecvIngestText(j) ==
    /\ ingestPc = "streaming"
    /\ rxCount < MaxRx
    /\ LET h == handle_text(j) IN
       /\ IF h.frames = <<>>
          THEN UNCHANGED <<bus, published>>
          ELSE broadcast_frame(h.frames[1])
       /\ ingestPc' = h.next
       /\ rxOutcome' = h.outcome
    /\ rxLast' = j
    /\ rxCount' = rxCount + 1
    /\ UNCHANGED <<attempts, ingestLast, waits, sleepSecs>>
    /\ UNCHANGED <<sub, delivered, subAt, endReason>>
    /\ UNCHANGED <<bridgeVars, simVars, codecVars, audioVars>>

IngestText == \E j \in IngestTexts : RecvIngestText(j)

\* connect_and_stream: binary, ping, pong and raw frames fall in `_ => {}`.
IngestOther ==
    /\ ingestPc = "streaming"
    /\ UNCHANGED <<bridgeVars, busVars, simVars, ingestVars, codecVars, audioVars>>

\* The same arm, with the history of what the loop did with the message.
IngestOtherObserved ==
    /\ ingestPc = "streaming"
    /\ rxOutcome' = "Other"
    /\ UNCHANGED <<ingestPc, attempts, ingestLast, waits, sleepSecs,
                   rxCount, rxLast>>
    /\ UNCHANGED <<bridgeVars, busVars, simVars, codecVars, audioVars>>

\* connect_and_stream: the read loop ends (Close message, end of stream or
\* read error) and Ok(()) is returned.
SessionEnd(how) ==
    /\ ingestPc = "streaming"
    /\ BeginSleep("Ok")
    /\ ingestLast' = how
    /\ UNCHANGED <<attempts, rxCount, rxLast, rxOutcome>>
    /\ UNCHANGED <<bridgeVars, busVars, simVars, codecVars, audioVars>>

\* Ok(Message::Close(_)) => break
IngestClose == SessionEnd("close")
\* read.next() yields None
IngestEnd == SessionEnd("end")
\* Err(e) => break
IngestError == SessionEnd("error")

\* start(): sleep(Duration::from_secs(5)) elapses, the loop calls
\* connect_and_stream again.
BackoffElapsed ==
    /\ ingestPc = "sleeping"
    /\ attempts < MaxAttempts
    /\ ingestPc' = "connecting"
    /\ attempts' = attempts + 1
    /\ UNCHANGED <<ingestLast, waits, sleepSecs, rxCount, rxLast, rxOutcome>>
    /\ UNCHANGED <<bridgeVars, busVars, simVars, codecVars, audioVars>>

InitIngest ==
    /\ ingestPc = "init"
    /\ attempts = 0
    /\ ingestLast = "none"
    /\ waits = 0
    /\ sleepSecs = 0
    /\ rxCount = 0
    /\ rxLast = NoText
    /\ rxOutcome = "none"

NextIngest ==
    \/ IngestStart
    \/ ConnectOk
    \/ ConnectFail
    \/ IngestText
    \/ IngestOther
    \/ IngestClose
    \/ IngestEnd
    \/ IngestError
    \/ BackoffElapsed

\* The ingest client with a producer that mixes text and other messages.
NextIngestOrder ==
    \/ IngestStart
    \/ ConnectOk
    \/ ConnectFail
    \/ IngestText
    \/ IngestOtherObserved
    \/ IngestClose
    \/ IngestEnd
    \/ IngestError
    \/ BackoffElapsed

\* JetsonARClient::new takes only the Sender: the owner of the channel drops
\* the Receiver that broadcast::channel returned, no receiver is left.
ReceiverDropped ==
    /\ bus.rx_cnt > 0
    /\ \A s \in Subs : sub[s].state # "live"
    /\ bus' = drop_receiver(bus)
    /\ UNCHANGED <<sub, delivered, published, subAt, endReason>>
    /\ UNCHANGED <<bridgeVars, simVars, ingestVars, codecVars, audioVars>>

\* The two publishers of the bus and no subscriber: the simulator, and one
\* session of the ingest client with a producer that keeps the link open.
NextProducers ==
    \/ IngestStart
    \/ ConnectOk
    \/ IngestText
    \/ IngestOther
    \/ SimulateFrame
    \/ ReceiverDropped

(***************************************************************************)
(* ===========================  Protocol codec  ========================== *)
(***************************************************************************)

FrameFields ==
    {"timestamp", "frame_id", "protocol_version", "objects", "hands",
     "audio_context", "device_states"}

\* The JSON values a frame field may hold when it is present
CodecFieldValues ==
    [timestamp : {1000}, frame_id : {0}, protocol_version : {256},
     objects : {"empty_array", "array_of_strings", "array_of_objects"},
     hands : {"null", "string", "object"},
     audio_context : {"null", "string", "object"},
     device_states : {"null", "string", "array_of_objects"}]

\* Every JSON object made of frame fields: each field missing or present
CodecInputs ==
    {[k \in K |-> v[k]] : K \in SUBSET FrameFields, v \in CodecFieldValues}

InitCodec == codec = [decoded |-> FALSE]

\* One text is decoded as a bare frame by both ARFrame types, and wrapped in
\* a Frame envelope by the gateway.
Decode ==
    /\ ~codec.decoded
    /\ \E j \in CodecInputs :
         /\ codec' = [decoded  |-> TRUE,
                      input    |-> j,
                      bare     |-> DecodeARFrame(j),
                      envelope |-> DecodeServerMessage([Frame |-> j]),
                      p1       |-> DecodeP1ARFrame(j),
                      handled_bare     |-> handle_text(j),
                      handled_envelope |-> handle_text([Frame |-> j])]
    /\ UNCHANGED <<bridgeVars, busVars, simVars, ingestVars, audioVars>>

NextCodec == Decode

(***************************************************************************)
(* ============================  Audio filters  ========================== *)
(* f32 amplitudes are fixed-point numbers with three decimals: One is 1.0.  *)
(* Decibel levels are compared as the amplitudes they stand for, since      *)
(* 20 * log10 is increasing; the floor 1e-10 is below the resolution.       *)
(***************************************************************************)

One == 1000

\* Finite samples: silence, below, at and above the gate threshold, beyond
\* full scale
AudioSamples == {-2000, -5, 0, 2, 10, 500}

RECURSIVE SlicesOfLen(_)
SlicesOfLen(n) ==
    IF n = 0 THEN {<<>>}
    ELSE {Append(s, x) : s \in SlicesOfLen(n - 1), x \in AudioSamples}

\* The non-empty slices a caller hands to process()
AudioSlices == UNION {SlicesOfLen(n) : n \in 1..MaxSlice}

Abs(x) == IF x < 0 THEN 0 - x ELSE x

\* a * b of two fixed-point numbers, rounded toward zero
MulFix(a, b) ==
    IF (a < 0) = (b < 0) THEN (Abs(a) * Abs(b)) \div One
    ELSE 0 - ((Abs(a) * Abs(b)) \div One)

\* 10^(db / 20): the amplitude of a level, for the levels the program uses
db_to_amplitude(db) ==
    CASE db = -40 -> 10
      [] db = -20 -> 100
      [] db = 0   -> One

\* AudioProcessor::new: NoiseGate::new(-40.0, ...), Normalizer::new(-20.0, ...)
GateThresholdDb == -40
TargetLevelDb == -20

\* ---- NoiseGate ----

NoiseGate_new(threshold_db, attack_samples, release_samples) ==
    [threshold_db    |-> threshold_db,
     attack_samples  |-> IF attack_samples < 1 THEN 1 ELSE attack_samples,
     release_samples |-> IF release_samples < 1 THEN 1 ELSE release_samples,
     state           |-> "Closed",
     envelope        |-> 0]

\* sample_db > threshold_db, sample_db < threshold_db
AboveThreshold(g, x) == Abs(x) > db_to_amplitude(g.threshold_db)
BelowThreshold(g, x) == Abs(x) < db_to_amplitude(g.threshold_db)

\* The match on self.state
gate_switch(g, x) ==
    IF g.state = "Closed"
    THEN IF AboveThreshold(g, x)
         THEN [g EXCEPT !.state = "Open", !.envelope = 0]
         ELSE g
    ELSE IF BelowThreshold(g, x)
         THEN [g EXCEPT !.state = "Closed", !.envelope = One]
         ELSE g

\* One turn of the loop of process(): the gate after it and the sample
gate_sample(g, x) ==
    LET s      == gate_switch(g, x)
        target == IF s.state = "Open" THEN One ELSE 0
        n      == IF target > s.envelope THEN s.attack_samples
                                         ELSE s.release_samples
        env    == s.envelope + ((target - s.envelope) \div n)
    IN  [self |-> [s EXCEPT !.envelope = env], out |-> MulFix(x, env)]

RECURSIVE NoiseGate_process(_, _)
NoiseGate_process(g, samples) ==
    IF samples = <<>> THEN [self |-> g, out |-> <<>>]
    ELSE LET r    == gate_sample(g, Head(samples))
             rest == NoiseGate_process(r.self, Tail(samples))
         IN  [self |-> rest.self, out |-> <<r.out>> \o rest.out]

NoiseGate_reset_keepsEnvelope(g) == [g EXCEPT !.state = "Closed"]

NoiseGate_reset(g) == [g EXCEPT !.state = "Closed", !.envelope = 0]

InitGate ==
    /\ ng = NoiseGate_new(GateThresholdDb, AttackSamples, ReleaseSamples)
    /\ ngIn = <<>>
    /\ ngOut = <<>>
    /\ ngQuiet = TRUE
    /\ ngN = 0
    /\ ngWasOpen = FALSE

GateProcess ==
    \E samples \in AudioSlices :
        /\ ngN + Len(samples) <= MaxSamples
        /\ LET r == NoiseGate_process(ng, samples)
           IN  /\ ng' = r.self
               /\ ngOut' = r.out
               /\ ngWasOpen' = (ngWasOpen \/ r.self.state = "Open")
        /\ ngIn' = samples
        /\ ngQuiet' = (ngQuiet /\ \A i \in DOMAIN samples :
                                      BelowThreshold(ng, samples[i]))
        /\ ngN' = ngN + Len(samples)
        /\ UNCHANGED <<bridgeVars, busVars, simVars, ingestVars, codecVars,
                       normVars, wavVars>>

GateReset ==
    /\ ngN > 0
    /\ ng' = NoiseGate_reset(ng)
    /\ ngQuiet' = TRUE
    /\ ngIn' = <<>>
    /\ ngOut' = <<>>
    /\ UNCHANGED <<ngN, ngWasOpen>>
    /\ UNCHANGED <<bridgeVars, busVars, simVars, ingestVars, codecVars,
                   normVars, wavVars>>

NextGate ==
    \/ GateProcess
    \/ GateReset

\* ---- Normalizer ----

\* adaptation_rate: 0.01
AdaptationRate == 10

Normalizer_new(target_level_db, window_size) ==
    [target_level_db |-> target_level_db,
     window_size     |-> window_size,
     buffer          |-> <<>>,
     current_gain    |-> One,
     adaptation_rate |-> AdaptationRate]

RECURSIVE SumSquares(_)
SumSquares(buf) ==
    IF buf = <<>> THEN 0 ELSE Head(buf) * Head(buf) + SumSquares(Tail(buf))

\* The integer square root of v, between lo and hi
RECURSIVE SqrtBetween(_, _, _)
SqrtBetween(v, lo, hi) ==
    IF lo = hi THEN lo
    ELSE LET mid == (lo + hi + 1) \div 2
         IN  IF mid * mid <= v THEN SqrtBetween(v, mid, hi)
                               ELSE SqrtBetween(v, lo, mid - 1)

sqrt(v) == SqrtBetween(v, 0, 2 * One)

clamp_noLimit(v, lo, hi) == v

clamp(v, lo, hi) == IF v < lo THEN lo ELSE IF v > hi THEN hi ELSE v

\* push_back, and pop_front once the window is exceeded
push_window(n, x) ==
    LET b == Append(n.buffer, Abs(x))
    IN  IF Len(b) > n.window_size THEN Tail(b) ELSE b

\* The gain after one sample.  With an empty buffer the mean is 0.0 / 0.0,
\* not a number, and the comparison with the noise floor is false.
adapt_gain(n, buf) ==
    IF buf = <<>> THEN n.current_gain
    ELSE LET rms == sqrt(SumSquares(buf) \div Len(buf))
         IN  IF rms > 0
             THEN LET target_gain ==
                          (db_to_amplitude(n.target_level_db) * One) \div rms
                  IN  n.current_gain
                        + MulFix(target_gain - n.current_gain,
                                 n.adaptation_rate)
             ELSE n.current_gain

\* One turn of the loop of process()
norm_sample(n, x) ==
    LET buf  == push_window(n, x)
        gain == adapt_gain(n, buf)
    IN  [self |-> [n EXCEPT !.buffer = buf, !.current_gain = gain],
         out  |-> clamp(MulFix(x, gain), 0 - One, One)]

RECURSIVE Normalizer_process(_, _)
Normalizer_process(n, samples) ==
    IF samples = <<>> THEN [self |-> n, out |-> <<>>]
    ELSE LET r    == norm_sample(n, Head(samples))
             rest == Normalizer_process(r.self, Tail(samples))
         IN  [self |-> rest.self, out |-> <<r.out>> \o rest.out]

Normalizer_reset(n) == [n EXCEPT !.buffer = <<>>, !.current_gain = One]

InitNorm ==
    /\ nz = Normalizer_new(TargetLevelDb, WindowSize)
    /\ nzIn = <<>>
    /\ nzOut = <<>>
    /\ nzN = 0

NormProcess ==
    \E samples \in AudioSlices :
        /\ nzN + Len(samples) <= MaxSamples
        /\ LET r == Normalizer_process(nz, samples)
           IN  /\ nz' = r.self
               /\ nzOut' = r.out
        /\ nzIn' = samples
        /\ nzN' = nzN + Len(samples)
        /\ UNCHANGED <<bridgeVars, busVars, simVars, ingestVars, codecVars,
                       gateVars, wavVars>>

NormReset ==
    /\ nzN > 0
    /\ nz' = Normalizer_reset(nz)
    /\ nzIn' = <<>>
    /\ nzOut' = <<>>
    /\ UNCHANGED nzN
    /\ UNCHANGED <<bridgeVars, busVars, simVars, ingestVars, codecVars,
                   gateVars, wavVars>>

\* Normalizer::new with another window, before any sample is processed
NormNew ==
    /\ nzN = 0
    /\ \E w \in {0, WindowSize} : nz' = Normalizer_new(TargetLevelDb, w)
    /\ UNCHANGED <<nzIn, nzOut, nzN>>
    /\ UNCHANGED <<bridgeVars, busVars, simVars, ingestVars, codecVars,
                   gateVars, wavVars>>

NextNorm ==
    \/ NormNew
    \/ NormProcess
    \/ NormReset

(***************************************************************************)
(* ============================  WAV recorder  =========================== *)
(* The writer is observed between calls.  Every file-system operation of a  *)
(* call may fail; the clock is read once per call.  An Option is a sequence *)
(* of at most one element.                                                  *)
(***************************************************************************)

\* Arguments of start_writing
SampleRates == {16000, 44100}
Channels == {1, 2}

\* The slices handed to write_samples
WavSlices == {<<>>, <<500>>, <<500, -5>>}

\* Outcomes of the file-system operations of start_writing and
\* finish_writing
StartIo == {"ok", "create_dir_failed", "create_failed"}
FinishIo == {"ok", "finalize_failed", "metadata_failed"}

\* get_current_date: the day of a clock reading
get_current_date(t) == t \div TicksPerDay

\* generate_filename: the name is the clock reading, to the second
generate_filename(t) == t

\* WavFileWriter::new
WavFileWriter_new ==
    [writer       |-> <<>>,
     current_file |-> <<>>,
     sample_count |-> 0,
     sample_rate  |-> 44100,
     current_date |-> <<>>]

is_writing(w) == w.writer # <<>>

should_rotate(w, t) ==
    IF w.current_date # <<>> THEN w.current_date[1] # get_current_date(t)
    ELSE FALSE

\* Mutant of start_writing: a call while a recording is open starts a new
\* recording in place of the open one.
start_writing_replacesOpen(w, sample_rate, channels, t, io) ==
    IF io # "ok" THEN [self |-> w, result |-> "Err"]
    ELSE [self |-> [writer |-> <<[path        |-> generate_filename(t),
                                  channels    |-> channels,
                                  sample_rate |-> sample_rate,
                                  written     |-> 0]>>,
                    current_file |-> <<generate_filename(t)>>,
                    sample_count |-> 0,
                    sample_rate  |-> sample_rate,
                    current_date |-> <<get_current_date(t)>>],
          result |-> "Ok"]

\* start_writing at clock reading t; io is what create_dir_all and
\* WavWriter::create do.  The writer holds the file, its WavSpec and the
\* number of samples written to it.
start_writing(w, sample_rate, channels, t, io) ==
    IF is_writing(w) THEN [self |-> w, result |-> "Err"]
    ELSE IF io # "ok" THEN [self |-> w, result |-> "Err"]
    ELSE [self |-> [writer |-> <<[path        |-> generate_filename(t),
                                  channels    |-> channels,
                                  sample_rate |-> sample_rate,
                                  written     |-> 0]>>,
                    current_file |-> <<generate_filename(t)>>,
                    sample_count |-> 0,
                    sample_rate  |-> sample_rate,
                    current_date |-> <<get_current_date(t)>>],
          result |-> "Ok"]

\* Mutant of finish_writing: the counter is left as it is.
finish_writing_keepsCount(w, io) ==
    LET taken == [w EXCEPT !.writer = <<>>, !.current_file = <<>>]
    IN  IF w.writer # <<>> /\ w.current_file # <<>>
        THEN IF io # "ok" THEN [self |-> taken, result |-> "Err"]
             ELSE [self |-> [taken EXCEPT !.current_date = <<>>],
                   result |-> "OkSome"]
        ELSE [self |-> taken, result |-> "OkNone"]

\* finish_writing; io is what finalize and fs::metadata do.  Both Options
\* are taken before the pattern is matched.
finish_writing(w, io) ==
    LET taken == [w EXCEPT !.writer = <<>>, !.current_file = <<>>]
    IN  IF w.writer # <<>> /\ w.current_file # <<>>
        THEN IF io # "ok" THEN [self |-> taken, result |-> "Err"]
             ELSE [self |-> [taken EXCEPT !.sample_count = 0,
                                          !.current_date = <<>>],
                   result |-> "OkSome"]
        ELSE [self |-> taken, result |-> "OkNone"]

\* check_rotation: past the day boundary the open file is finished and a new
\* one is started with the stored sample rate.
check_rotation(w, channels, t, fin, start) ==
    IF is_writing(w) /\ should_rotate(w, t)
    THEN LET f == finish_writing(w, fin)
         IN  IF f.result = "Err" THEN [self |-> f.self, result |-> "Err"]
             ELSE start_writing(f.self, f.self.sample_rate, channels, t, start)
    ELSE [self |-> w, result |-> "Ok"]

\* write_samples; failAt is the index of the sample whose write_sample
\* fails, 0 if none does.
write_samples(w, samples, t, fin, start, failAt) ==
    LET r == check_rotation(w, 1, t, fin, start)
        v == r.self
    IN  IF r.result = "Err" THEN [self |-> v, result |-> "Err"]
        ELSE IF v.writer # <<>>
        THEN IF failAt \in 1..Len(samples)
             THEN [self |-> [v EXCEPT !.writer[1].written = @ + failAt - 1],
                   result |-> "Err"]
             ELSE [self |-> [v EXCEPT !.writer[1].written = @ + Len(samples),
                                      !.sample_count = @ + Len(samples)],
                   result |-> "Ok"]
        ELSE [self |-> v, result |-> "Err"]

InitWav ==
    /\ wav = WavFileWriter_new
    /\ now = 0
    /\ wavCalls = 0
    /\ wavLast = [op |-> "new", result |-> "Ok", after_finish |-> FALSE]
    /\ wavAccepted = 0
    /\ wavRotated = FALSE

\* The history of a call that returned r
Called(op, r) ==
    /\ wavCalls < MaxCalls
    /\ wavCalls' = wavCalls + 1
    /\ wav' = r.self
    /\ wavLast' = [op |-> op, result |-> r.result,
                   after_finish |-> (wavLast.op = "finish_writing"
                                     /\ wavLast.result = "OkSome")]

StartWriting ==
    /\ \E sample_rate \in SampleRates, channels \in Channels, io \in StartIo :
         LET r == start_writing(wav, sample_rate, channels, now, io)
         IN  /\ Called("start_writing", r)
             /\ wavAccepted' = IF r.result = "Ok" THEN 0 ELSE wavAccepted
    /\ UNCHANGED <<now, wavRotated>>
    /\ UNCHANGED <<bridgeVars, busVars, simVars, ingestVars, codecVars,
                   gateVars, normVars>>

WriteSamples ==
    /\ \E samples \in WavSlices, fin \in FinishIo, start \in StartIo,
          failAt \in 0..MaxSlice :
         LET r       == write_samples(wav, samples, now, fin, start, failAt)
             rotated == /\ is_writing(wav) /\ should_rotate(wav, now)
                        /\ check_rotation(wav, 1, now, fin, start).result = "Ok"
         IN  /\ failAt <= Len(samples)
             /\ Called("write_samples", r)
             /\ wavAccepted' =
                    (IF rotated THEN 0 ELSE wavAccepted)
                    + (IF r.result = "Ok" THEN Len(samples) ELSE 0)
             /\ wavRotated' = (wavRotated \/ rotated)
    /\ UNCHANGED now
    /\ UNCHANGED <<bridgeVars, busVars, simVars, ingestVars, codecVars,
                   gateVars, normVars>>

FinishWriting ==
    /\ \E io \in FinishIo : Called("finish_writing", finish_writing(wav, io))
    /\ UNCHANGED <<now, wavAccepted, wavRotated>>
    /\ UNCHANGED <<bridgeVars, busVars, simVars, ingestVars, codecVars,
                   gateVars, normVars>>

\* Local::now() advances between calls
Tick ==
    /\ now < MaxClock
    /\ now' = now + 1
    /\ UNCHANGED <<wav, wavCalls, wavLast, wavAccepted, wavRotated>>
    /\ UNCHANGED <<bridgeVars, busVars, simVars, ingestVars, codecVars,
                   gateVars, normVars>>

NextWav ==
    \/ StartWriting
    \/ WriteSamples
    \/ FinishWriting
    \/ Tick

InitAudio == InitGate /\ InitNorm /\ InitWav

Init == InitBridge /\ InitBus /\ InitIngest /\ InitCodec /\ InitAudio

SpecBridge == Init /\ [][NextBridge]_vars
SpecClients == Init /\ [][NextClients]_vars
SpecGenerators == Init /\ [][NextGenerators]_vars
SpecCadence == Init /\ [][NextCadence]_vars
SpecBus == Init /\ [][NextBus]_vars
SpecIngest == Init /\ [][NextIngest]_vars
SpecIngestOrder == Init /\ [][NextIngestOrder]_vars
SpecCodec == Init /\ [][NextCodec]_vars
SpecGate == Init /\ [][NextGate]_vars
SpecNorm == Init /\ [][NextNorm]_vars
SpecWav == Init /\ [][NextWav]_vars
SpecProducers == Init /\ [][NextProducers]_vars

\* The back-off sleep ends by itself; everything else in the ingest client
\* waits for the producer.
SpecIngestFair == Init /\ [][NextIngest]_vars /\ WF_vars(BackoffElapsed)

\* The send timer and the acknowledgement send are driven by the server
\* alone; every step of the receive loop waits for the peer.
SpecBridgeFair ==
    /\ Init /\ [][NextBridge]_vars
    /\ \A c \in Conns : WF_vars(StreamFrame(c)) /\ WF_vars(AckSend(c))

(***************************************************************************)
(* ============================  Properties  ============================= *)
(***************************************************************************)

\* C1: on every connection whose upgrade succeeded and whose acknowledgement
\* send was issued, exactly one Connected envelope has been sent, and it is
\* the first envelope; nothing is sent on a connection before that.
C1_ConnectedOnceBeforeFrames ==
    \A c \in Conns :
      /\ hc[c] \in {"none", "upgrade", "ack", "ret_err_upgrade"} => sent[c] = <<>>
      /\ hc[c] \in {"recv", "ret_ok", "ret_err_read", "ret_err_ack"} =>
           /\ Len(sent[c]) >= 1
           /\ sent[c][1] = ConnectedMsg
           /\ \A i \in 2..Len(sent[c]) : sent[c][i].type = "Frame"

C1_Witness ==
    \E c \in Conns :
      /\ hc[c] = "recv"
      /\ Len(sent[c]) >= 3
      /\ sent[c][1].type = "Connected"
      /\ sent[c][3].type = "Frame"

\* C2: once handle_client has returned because of a read error, the send
\* task of that connection is no longer running.
C2_ReadErrorCancelsSendLoop ==
    \A c \in Conns : hc[c] = "ret_err_read" => st[c] # "running"

\* C3: once handle_client has returned after a Close message or the end of
\* the inbound stream, the send task of that connection is cancelled or
\* has finished: it is not running.
C3_CloseCancelsSendLoop ==
    \A c \in Conns : hc[c] = "ret_ok" => st[c] \in {"aborted", "finished"}

C3_Witness ==
    \E c \in Conns :
      /\ hc[c] = "ret_ok"
      /\ st[c] = "aborted"
      /\ Len(sent[c]) >= 2

\* C4: after a Frame send has failed (the send task finished), the receive
\* loop of the same connection terminates too.
C4_SendFailureEndsReceiveLoop ==
    \A c \in Conns : (st[c] = "finished") ~> (hc[c] # "recv")

\* C5: a subscriber whose cursor was evicted is fast-forwarded and keeps its
\* subscription: a lagging read never ends the stream.
C5_LagIsNotFatal ==
    \A s \in Subs : endReason[s] # "lagged"

\* A subscriber that has never been found lagging
NeverLagged(s) == sub[s].state # "none" /\ endReason[s] # "lagged"
\* A live subscriber whose next unread entry is still retained
WithinCapacity(s) ==
    sub[s].state = "live" /\ Len(published) - sub[s].next <= BufLen(bus)

\* C6: a subscriber created before the first publish that never lagged has
\* been delivered a prefix of the published sequence (each frame once, in
\* publish order), and all of it when its next read finds nothing new.
C6_KeepingPaceSeesAllInOrder ==
    \A s \in Subs :
      (NeverLagged(s) /\ subAt[s] = 0) =>
        /\ Len(delivered[s]) <= Len(published)
        /\ delivered[s] = SubSeq(published, 1, Len(delivered[s]))
        /\ (WithinCapacity(s) /\ recv(bus, sub[s].next).kind \in {"Empty", "Closed"})
             => delivered[s] = published

C6_Witness ==
    \E s \in Subs :
      /\ sub[s].state = "live"
      /\ subAt[s] = 0
      /\ Len(published) > BufLen(bus)
      /\ delivered[s] = published

\* C7: a publish is possible whatever the subscribers and their cursors
\* are, and the next unread frame of a subscriber within capacity is
\* available at once and is the frame published at its cursor, however far
\* behind the other subscribers are.
C7_PublishNeverBlocked ==
    /\ (~bus.closed /\ Len(published) < MaxPublish) => ENABLED SimulateFrame
    /\ \A s \in Subs :
         (WithinCapacity(s) /\ sub[s].next < Len(published)) =>
           LET r == recv(bus, sub[s].next) IN
           /\ r.kind = "Ok"
           /\ r.val = <<published[sub[s].next + 1]>>

C7_Witness ==
    \E s, t \in Subs :
      /\ WithinCapacity(s)
      /\ sub[s].next < Len(published)
      /\ sub[t].state = "live"
      /\ Len(published) - sub[t].next > BufLen(bus)
      /\ Len(published) = MaxPublish

\* C8: a subscription stream ends only when its client disconnects or when
\* the bus has been torn down.
C8_EndsOnlyOnDisconnectOrTeardown ==
    \A s \in Subs :
      sub[s].state = "ended" =>
        \/ endReason[s] = "disconnect"
        \/ endReason[s] = "closed" /\ bus.closed

\* C9: no frame published before a subscription was created is delivered
\* to it.
C9_NoHistoryDelivered ==
    \A s \in Subs :
      \A i \in 1..Len(delivered[s]) :
        \A k \in 1..subAt[s] : delivered[s][i] # published[k]

C9_Witness ==
    \E s \in Subs :
      /\ subAt[s] >= 1
      /\ Len(delivered[s]) >= 1

\* The state of the ingest client's state machine
ClientState ==
    CASE ingestPc \in {"init", "sleeping"} -> "Disconnected"
      [] ingestPc = "connecting" -> "Connecting"
      [] ingestPc = "streaming" -> "Streaming"
      [] OTHER -> "Returned"

AllowedTransitions ==
    {<<"Disconnected", "Connecting">>, <<"Connecting", "Streaming">>,
     <<"Connecting", "Disconnected">>, <<"Streaming", "Disconnected">>,
     <<"Disconnected", "Disconnected">>, <<"Connecting", "Connecting">>,
     <<"Streaming", "Streaming">>}

\* A step of start() itself (not of the peer) is possible
ClientCanMove ==
    ENABLED (IngestStart \/ ConnectOk \/ ConnectFail \/ IngestEnd \/ BackoffElapsed)

\* C10: the ingest client only moves Disconnected -> Connecting ->
\* Streaming -> Disconnected, or Connecting -> Disconnected; no step makes
\* start() return, and short of the bound on attempts the loop can always
\* take a further step.
C10_IngestStateMachine ==
    /\ [](attempts < MaxAttempts => ClientCanMove)
    /\ [][/\ <<ClientState, ClientState'>> \in AllowedTransitions
          /\ ClientState' # "Returned"]_vars

C10_Witness ==
    /\ ingestPc = "connecting"
    /\ attempts >= 3
    /\ ingestLast = "error"

\* The last session ended on a transport close, end of stream or read error.
SessionEnded ==
    /\ ingestPc \in {"sleeping", "returned"}
    /\ ingestLast \in {"close", "end", "error"}

\* C11: whenever a Streaming session has ended because the transport closed
\* or failed, the client eventually makes a new connection attempt; and when
\* the only text a producer ever sent is one Connected envelope, no frame
\* has been published.
C11_ReconnectAfterSessionEnd ==
    /\ [](SessionEnded /\ attempts < MaxAttempts => <>(ingestPc = "connecting"))
    /\ [](rxCount = 1 /\ rxOutcome = "Connected" => published = <<>>)

\* A producer accepted, sent one Connected envelope and closed; the client
\* is in its second attempt and nothing was published.
C11_Witness ==
    /\ ingestPc = "connecting"
    /\ attempts = 2
    /\ ingestLast = "close"
    /\ rxCount = 1
    /\ rxLast = ConnectedJson
    /\ published = <<>>

\* C12: the first attempt is made without a wait, every later attempt is
\* preceded by exactly one wait, after a failed connect as after an ended
\* session, and every wait lasts the same BackoffSecs whatever the number
\* of attempts made.
C12_OneFixedWaitBetweenAttempts ==
    /\ ingestPc = "init" => attempts = 0 /\ waits = 0
    /\ ingestPc \in {"connecting", "streaming"} => waits = attempts - 1
    /\ ingestPc = "sleeping" => waits = attempts
    /\ waits > 0 => sleepSecs = BackoffSecs

\* The third attempt is under way after a failed connect and an ended
\* session: two waits of BackoffSecs each.
C12_Witness ==
    /\ ingestPc = "connecting"
    /\ attempts = 3
    /\ waits = 2
    /\ sleepSecs = BackoffSecs
    /\ ingestLast \in {"close", "end", "error"}

\* A step of the read loop that handles a text message
TextStep == rxCount' = rxCount + 1

\* What the step has published
PublishedByStep == SubSeq(published', Len(published) + 1, Len(published'))

\* The envelope a text decodes to, if any
EnvelopeOf(j) == DecodeServerMessage(j)

\* The text decodes to a frame, enveloped or, the envelope failing, bare
DecodesToFrame(j) ==
    IF EnvelopeOf(j).ok THEN EnvelopeOf(j).tag = "Frame"
    ELSE DecodeARFrame(j).ok

\* The frame such a text decodes to
FrameOf(j) ==
    IF EnvelopeOf(j).ok THEN EnvelopeOf(j).frame ELSE DecodeARFrame(j).frame

\* C13: while Streaming, a text that decodes to a frame, in an envelope or
\* bare, is published exactly once; a Connected or Error envelope publishes
\* nothing and leaves the client Streaming.
C13_PublishOncePerFrame ==
    [][TextStep =>
         /\ ingestPc = "streaming"
         /\ DecodesToFrame(rxLast') =>
               /\ PublishedByStep = <<scene_of(FrameOf(rxLast'))>>
               /\ ingestPc' = "streaming"
         /\ EnvelopeOf(rxLast').ok
              /\ EnvelopeOf(rxLast').tag \in {"Connected", "Error"} =>
               /\ PublishedByStep = <<>>
               /\ bus' = bus
               /\ ingestPc' = "streaming"]_vars

\* A frame, a Connected and an Error envelope were read in one session and
\* only the frame was published.
C13_Witness ==
    /\ ingestPc = "streaming"
    /\ rxCount = 3
    /\ rxOutcome = "Error"
    /\ Len(published) = 1

\* The texts that decode neither as an envelope nor as a bare frame
Undecodable(j) == ~DecodeServerMessage(j).ok /\ ~DecodeARFrame(j).ok

\* C14: a text that decodes neither as an envelope nor as a bare frame is
\* discarded: nothing is published, the client stays Streaming, and a valid
\* frame received next is still published.
C14_BadTextDiscarded ==
    /\ [][TextStep /\ Undecodable(rxLast') =>
             /\ rxOutcome' = "ParseFailure"
             /\ published' = published
             /\ bus' = bus
             /\ ingestPc' = "streaming"]_vars
    /\ [](/\ ingestPc = "streaming"
           /\ rxOutcome = "ParseFailure"
           /\ rxCount < MaxRx
           => ENABLED (/\ RecvIngestText(MinimalFrameJson(1000, 0))
                       /\ published' = Append(published,
                                               Scene(1000, 0))))

\* A frame was published right after a text that did not parse.
C14_Witness ==
    /\ ingestPc = "streaming"
    /\ rxCount = 2
    /\ rxOutcome = "BareFrame"
    /\ Len(published) = 1
    /\ attempts = 1

\* No subscription stream is live
NoSubscribers == \A s \in Subs : sub[s].state # "live"

\* A step of the simulator
SimulatorStep == sim_frame_id' # sim_frame_id

\* C15: publishing with no subscriber is not an error. The ingest client
\* that publishes a frame stays Streaming and can handle the next text, and
\* the simulator goes on to its next frame and can produce again, whether
\* send stored the scene (a receiver exists that nobody reads) or returned
\* Err (no receiver at all).
C15_PublishWithoutSubscribers ==
    /\ [][NoSubscribers /\ TextStep /\ DecodesToFrame(rxLast') =>
             /\ rxOutcome' \in {"Frame", "BareFrame"}
             /\ ingestPc' = "streaming"
             /\ published' = IF send_ok(bus)
                             THEN Append(published, scene_of(FrameOf(rxLast')))
                             ELSE published]_vars
    /\ [][NoSubscribers /\ SimulatorStep =>
             sim_frame_id' = wrapping_add1(sim_frame_id)]_vars
    /\ [](NoSubscribers /\ ingestPc = "streaming" /\ rxCount < MaxRx =>
            ENABLED RecvIngestText(MinimalFrameJson(1000, 0)))
    /\ [](NoSubscribers /\ ~bus.closed /\ Len(published) < MaxPublish =>
            ENABLED SimulateFrame)

\* With no receiver left, the ingest client has handled two frames and the
\* simulator has produced two frames; nothing was stored.
C15_Witness ==
    /\ bus.rx_cnt = 0
    /\ NoSubscribers
    /\ published = <<>>
    /\ ingestPc = "streaming"
    /\ rxCount = 2
    /\ rxOutcome = "Frame"
    /\ sim_frame_id = 2

\* C16: on every text the envelope is tried first and decides alone when
\* it decodes; the bare frame is used exactly when the envelope failed and
\* the bare frame decodes; the parse failure is reported exactly when both
\* failed; and the text is handled by one shape at most, publishing at most
\* one scene.
C16_EnvelopeFirstThenBare ==
    [][TextStep =>
         LET j == rxLast' IN
         /\ EnvelopeOf(j).ok => rxOutcome' = EnvelopeOf(j).tag
         /\ rxOutcome' = "BareFrame" <=>
                ~EnvelopeOf(j).ok /\ DecodeARFrame(j).ok
         /\ rxOutcome' = "ParseFailure" <=>
                ~EnvelopeOf(j).ok /\ ~DecodeARFrame(j).ok
         /\ Len(PublishedByStep) <= 1]_vars

\* A bare frame was read after the envelope decode failed on it, and
\* published.
C16_Witness ==
    /\ rxOutcome = "BareFrame"
    /\ rxLast = DummyFrameJson(2000, 1)
    /\ ~EnvelopeOf(rxLast).ok
    /\ published = <<Scene(2000, 1)>>

\* C17: the same frame payload, bare or wrapped in a Frame envelope, decodes
\* alike: both fail or both give the same frame, and the ingest client hands
\* the same frame to the bus.
C17_WrapperTransparent ==
    codec.decoded =>
        /\ codec.bare.ok <=> codec.envelope.ok
        /\ codec.bare.ok =>
              /\ codec.envelope.tag = "Frame"
              /\ codec.envelope.frame = codec.bare.frame
              /\ codec.handled_bare.frames = <<codec.bare.frame>>
              /\ codec.handled_envelope.frames = codec.handled_bare.frames
        /\ ~codec.bare.ok =>
              /\ codec.handled_bare.frames = <<>>
              /\ codec.handled_envelope.frames = <<>>

\* A payload with objects and hands decoded in both shapes.
C17_Witness ==
    /\ codec.decoded
    /\ DOMAIN codec.input = FrameFields \ {"protocol_version"}
    /\ codec.input.objects = "array_of_strings"
    /\ codec.input.hands = "string"
    /\ codec.bare.ok
    /\ codec.envelope.ok

\* The sub-payload fields of a frame
SubPayloadFields == {"objects", "hands", "audio_context", "device_states"}

NextToAccept(c) ==
    /\ hc[c] = "none"
    /\ \A d \in Conns : d < c => hc[d] # "none"

\* C19: once bound, the accept loop can always take the next connection,
\* wherever the existing connections are (in the upgrade, in the
\* acknowledgement send, in the receive or send loop, returned) and however
\* many accepts have failed; accepting starts the handler of the new
\* connection and touches no other one; the listener never stops listening.
C19_AcceptLoopNeverBlocked ==
    /\ [](\A c \in Conns :
            listener = "listening" /\ NextToAccept(c) => ENABLED Accept(c))
    /\ [][\A c \in Conns :
            hc[c] = "none" /\ hc'[c] # "none" =>
               /\ hc'[c] = "upgrade"
               /\ \A d \in Conns \ {c} : hc'[d] = hc[d]
               /\ st' = st /\ sent' = sent /\ frame_id' = frame_id]_vars
    /\ [][listener = "listening" => listener' = "listening"]_vars

\* After a failed accept, connection 2 was accepted and is streaming while
\* connection 1 is still in its upgrade.
C19_Witness ==
    /\ acceptErrs >= 1
    /\ hc[1] = "upgrade"
    /\ hc[2] = "recv"
    /\ st[2] = "running"
    /\ Len(sent[2]) >= 2

\* A step in which connection c meets a transport failure: failed upgrade,
\* failed acknowledgement send, read error, failed frame send
TransportFailure(c) ==
    \/ hc[c] = "upgrade" /\ hc'[c] = "ret_err_upgrade"
    \/ hc[c] = "ack" /\ hc'[c] = "ret_err_ack"
    \/ hc[c] = "recv" /\ hc'[c] = "ret_err_read"
    \/ st[c] = "running" /\ st'[c] = "finished"

\* Connection c has met a transport failure
Failed(c) ==
    \/ hc[c] \in {"ret_err_upgrade", "ret_err_ack", "ret_err_read"}
    \/ st[c] = "finished"

\* C20: a transport failure on connection c changes nothing of any other
\* connection (handler position, streaming task, envelopes sent, frame
\* counter) nor of the listener, and afterwards the other connections can
\* still send their next frame and read their next message.
C20_FailureIsolated ==
    /\ [][\A c \in Conns : TransportFailure(c) =>
             /\ \A d \in Conns \ {c} :
                   /\ hc'[d] = hc[d]
                   /\ st'[d] = st[d]
                   /\ sent'[d] = sent[d]
                   /\ frame_id'[d] = frame_id[d]
             /\ listener' = listener]_vars
    /\ [](\A c \in Conns : \A d \in Conns \ {c} :
            Failed(c) =>
              /\ st[d] = "running" /\ Len(sent[d]) <= MaxFrames
                    => ENABLED StreamFrame(d)
              /\ hc[d] = "recv" => ENABLED RecvText(d))

\* Connection 1 returned on a read error; connection 2 went on and has sent
\* its acknowledgement and the frames 0 and 1.
C20_Witness ==
    /\ hc[1] = "ret_err_read"
    /\ hc[2] = "recv"
    /\ st[2] = "running"
    /\ sent[2] = <<ConnectedMsg, FrameMsg(0), FrameMsg(1)>>

\* A step in which a receive loop reads a text other than the last one
ClientTextStep == lastRx' # lastRx

\* What a connection is made of, besides the record of the text read
ConnectionState == <<listener, hc, st, frame_id, interval, sent, clients>>

\* Connection c can read its next message and, while its send loop has
\* frames left to send in the model, send its next frame
ConnectionContinues(c) ==
    /\ ENABLED RecvTextObserved(c)
    /\ st[c] = "running" /\ Len(sent[c]) <= MaxFrames => ENABLED StreamFrame(c)

\* C21: a client text that does not decode as a ClientMessage is dropped:
\* reading it changes nothing of any connection, and afterwards every
\* connection that was in its receive loop can read its next message and
\* its send loop can send its next frame.
C21_BadClientTextDropped ==
    /\ [][ClientTextStep /\ ~DecodeClientMessage(lastRx').ok =>
             /\ UNCHANGED ConnectionState
             /\ \E c \in Conns : hc[c] = "recv"]_vars
    /\ [](~DecodeClientMessage(lastRx).ok /\ lastRx # NoText =>
            \A c \in Conns : hc[c] = "recv" => ConnectionContinues(c))

\* Connection 1 has read a ConfigureStream without quality, is in its
\* receive loop and streams.
C21_Witness ==
    /\ lastRx = [ConfigureStream |-> [target_fps |-> 10]]
    /\ hc[1] = "recv"
    /\ hc[2] = "none"
    /\ st[1] = "running"
    /\ Len(sent[1]) >= 3

\* C22: reading a ConfigureStream, whatever its target_fps and quality,
\* changes nothing of any send loop, and the frame interval of every send loop
\* is always the one computed from the target_fps of the server
\* configuration.
C22_ConfigureStreamIgnored ==
    /\ [][/\ ClientTextStep
          /\ DecodeClientMessage(lastRx').ok
          /\ DecodeClientMessage(lastRx').kind = "ConfigureStream"
          => UNCHANGED <<interval, st, frame_id, sent>>]_vars
    /\ [](\A c \in Conns :
            st[c] # "none" => interval[c] = frame_interval(ServerConfig))

\* Connection 1 has read ConfigureStream{60, Adaptive} while streaming.
C22_Witness ==
    /\ lastRx = ConfigureStreamJson(60, "Adaptive")
    /\ hc[1] = "recv"
    /\ hc[2] = "none"
    /\ st[1] = "running"
    /\ interval[1] = frame_interval(StreamConfigDefault)
    /\ interval[1] # frame_interval([target_fps |-> 60])
    /\ Len(sent[1]) >= 2

\* C23: reading a text that decodes as a ClientMessage of any variant
\* sends nothing, changes nothing of any connection and ends none; every
\* envelope ever sent on a connection is the Connected acknowledgement
\* first and Frames after it, never a Pong or an Error.
C23_ClientMessagesSilent ==
    /\ [][ClientTextStep /\ DecodeClientMessage(lastRx').ok =>
             /\ DecodeClientMessage(lastRx').kind \in ClientMessages
             /\ UNCHANGED ConnectionState]_vars
    /\ [](\A c \in Conns : \A i \in 1..Len(sent[c]) :
            sent[c][i].type = IF i = 1 THEN "Connected" ELSE "Frame")

\* Connection 1 has read a Ping; it got the acknowledgement and frames only.
C23_Witness ==
    /\ lastRx = [Ping |-> [timestamp |-> 1000]]
    /\ hc[1] = "recv"
    /\ hc[2] = "none"
    /\ sent[1] = <<ConnectedMsg, FrameMsg(0), FrameMsg(1)>>

\* The frame_ids of the Frame envelopes sent on connection c, in order
FrameIdsSent(c) ==
    [i \in 1..(Len(sent[c]) - 1) |-> sent[c][i + 1].frame_id]

\* C24: on every connection the Frames are sent in the order of their
\* generation with frame_ids 0, 1, 2, ...: the first Frame has frame_id 0
\* whatever the other connections have sent, and each later one the
\* previous frame_id plus 1 modulo the range of the counter.
C24_FrameIdsSequential ==
    \A c \in Conns :
        LET ids == FrameIdsSent(c) IN
        /\ \A i \in 2..Len(sent[c]) : sent[c][i].type = "Frame"
        /\ Len(ids) >= 1 => ids[1] = 0
        /\ \A i \in 2..Len(ids) : ids[i] = (ids[i - 1] + 1) % FrameIdMod
        /\ st[c] = "running" => frame_id[c] = Len(ids) % FrameIdMod

\* Connection 1 has sent frames past the wrap of its counter when
\* connection 2 sends its first frames, numbered from 0.
C24_Witness ==
    /\ Len(FrameIdsSent(1)) = FrameIdMod + 1
    /\ FrameIdsSent(1)[FrameIdMod + 1] = 0
    /\ FrameIdsSent(2) = <<0, 1>>
    /\ st[1] = "running"
    /\ st[2] = "running"

\* A step in which the send loop of c has sent a frame
FrameSent(c) == Len(sent'[c]) = Len(sent[c]) + 1 /\ st[c] = "running"

\* C25: the wrap of frame_id is no error. When the counter of a send loop
\* holds the largest value and its frame is sent, the counter becomes 0,
\* the loop keeps running and sends the next frame with frame_id 0; when the
\* counter of the simulator holds the largest value, it publishes, its
\* counter becomes 0 and it publishes the next scene with frame_id 0.
C25_WrapIsNoError ==
    /\ [][\A c \in Conns :
            FrameSent(c) /\ frame_id[c] = FrameIdMod - 1 /\ st'[c] = "running"
            => frame_id'[c] = 0]_vars
    /\ [][sim_frame_id = FrameIdMod - 1 /\ sim_frame_id' # sim_frame_id
            => sim_frame_id' = 0 /\ Len(published') = Len(published) + 1]_vars
    /\ [](\A c \in Conns :
            /\ frame_id[c] \in 0..(FrameIdMod - 1)
            /\ st[c] = "running" /\ Len(sent[c]) = FrameIdMod + 1
                  => ENABLED (StreamFrameLong(c)
                              /\ sent'[c][FrameIdMod + 2] = FrameMsg(0)))
    /\ [](/\ sim_frame_id \in 0..(FrameIdMod - 1)
           /\ Len(published) = FrameIdMod /\ ~bus.closed
                  => ENABLED (SimulateFrameLong
                              /\ published'[FrameIdMod + 1].frame_id = 0))

\* A send loop and the simulator are both past the wrap: the frame after
\* the one with the largest frame_id carries frame_id 0.
C25_Witness ==
    /\ Len(sent[1]) = FrameIdMod + 2
    /\ sent[1][FrameIdMod + 1] = FrameMsg(FrameIdMod - 1)
    /\ sent[1][FrameIdMod + 2] = FrameMsg(0)
    /\ st[1] = "running"
    /\ Len(published) = FrameIdMod + 1
    /\ published[FrameIdMod].frame_id = FrameIdMod - 1
    /\ published[FrameIdMod + 1].frame_id = 0

\* Frames a send loop with the given frame interval sends in one second
FramesPerSecond(us) == 1000000 \div us

\* C26: two clients connected at the same time that asked for different
\* target_fps each get their frames at their own rate: the frame interval of
\* each send loop, and so the number of frames in a window, is the one of
\* the target_fps of its client.
C26_OwnCadencePerClient ==
    \A c, d \in Conns :
        /\ c # d
        /\ st[c] = "running" /\ st[d] = "running"
        /\ requested[c] # 0 /\ requested[d] # 0
        /\ requested[c] # requested[d]
        => /\ FramesPerSecond(interval[c]) = requested[c]
           /\ FramesPerSecond(interval[d]) = requested[d]

\* C27: when the bind of the listen address fails, run() has returned the
\* error before its accept loop: no connection has been or will be accepted
\* or served, no accept was tried, and the server takes no further step.
C27_BindFailureIsFatal ==
    listener = "bind_failed" =>
        /\ \A c \in Conns :
              hc[c] = "none" /\ st[c] = "none" /\ sent[c] = <<>>
        /\ acceptErrs = 0
        /\ \A c \in Conns : ~ENABLED Accept(c)
        /\ ~ENABLED NextBridge

\* The bind has failed.
C27_Witness ==
    /\ listener = "bind_failed"
    /\ \A c \in Conns : hc[c] = "none"

\* C28: after Normalizer::process every sample of the slice lies in
\* [-1.0, 1.0], whatever finite samples went in and whatever state earlier
\* process calls (and resets) left the normalizer in.
C28_NormalizerOutputInRange ==
    \A i \in DOMAIN nzOut : nzOut[i] >= 0 - One /\ nzOut[i] <= One

\* Earlier quiet samples have raised the gain above 2; a half-scale sample
\* comes out at the limit.
C28_Witness ==
    /\ nzN > Len(nzIn)
    /\ nz.current_gain > 2 * One
    /\ \E i \in DOMAIN nzIn : nzIn[i] = 500 /\ nzOut[i] = One

\* C29: a new or reset NoiseGate keeps quiet audio out: as long as every
\* sample processed since the gate was made or reset is below the threshold,
\* the gate is Closed, its envelope is 0 and every sample it returned is 0.
C29_QuietAudioGated ==
    ngQuiet =>
        /\ ng.state = "Closed"
        /\ ng.envelope = 0
        /\ \A i \in DOMAIN ngOut : ngOut[i] = 0

\* The gate has been open, was reset, and has processed two quiet samples
\* since.
C29_Witness ==
    /\ ngWasOpen
    /\ ngQuiet
    /\ ngIn = <<-5, 2>>
    /\ ngOut = <<0, 0>>
    /\ ng.state = "Closed"

\* C30: the clients list is never modified: it is empty in every reachable
\* state, whatever the number of connections being served or torn down,
\* and no step changes it.
C30_ClientsListNeverModified ==
    /\ [](clients = <<>>)
    /\ [][clients' = clients]_vars

\* One connection is served, the other has been torn down after streaming;
\* the list is empty.
C30_Witness ==
    /\ hc[1] = "recv"
    /\ st[1] = "running"
    /\ hc[2] = "ret_ok"
    /\ st[2] = "aborted"
    /\ Len(sent[2]) >= 2
    /\ clients = <<>>

\* Some step of the tasks of connection c can be taken
ConnectionTaskEnabled(c) ==
    \/ ENABLED Upgrade(c)
    \/ ENABLED AckSend(c)
    \/ ENABLED StreamFrame(c)
    \/ ENABLED RecvText(c)
    \/ ENABLED RecvOther(c)
    \/ ENABLED RecvClose(c)
    \/ ENABLED RecvEnd(c)
    \/ ENABLED RecvError(c)

\* C31: when the WebSocket upgrade or the send of the acknowledgement has
\* failed, handle_client has returned the error without a send loop or a
\* receive loop: the streaming task was never spawned, no Frame was handed
\* to the connection, and no step of a task of that connection remains.
C31_HandshakeFailureStartsNothing ==
    \A c \in Conns :
        hc[c] \in {"ret_err_upgrade", "ret_err_ack"} =>
            /\ st[c] = "none"
            /\ interval[c] = 0
            /\ \A i \in DOMAIN sent[c] : sent[c][i].type # "Frame"
            /\ hc[c] = "ret_err_upgrade" => sent[c] = <<>>
            /\ ~ConnectionTaskEnabled(c)

\* The upgrade of one connection and the acknowledgement of the other have
\* failed.
C31_Witness ==
    /\ hc[1] = "ret_err_upgrade"
    /\ hc[2] = "ret_err_ack"
    /\ sent[2] = <<ConnectedMsg>>

\* The frame object of a text: the value of an envelope's Frame key, or the
\* text itself
FrameJsonOf(j) == IF DOMAIN j = {"Frame"} THEN j.Frame ELSE j

\* A step of the read loop that handles a message that is not text, after a
\* text or at the start of a session
OtherStep == rxOutcome' = "Other" /\ rxOutcome # "Other"

\* C32: a text that decodes to a frame appends one scene to the published
\* scenes, with the timestamp and the frame_id written in that text, so that
\* scenes are published in the order of reception; no other step publishes;
\* a message that is not text publishes nothing, leaves the bus alone and
\* leaves the client Streaming.
C32_ScenesMirrorFramesInOrder ==
    [][/\ TextStep /\ DecodesToFrame(rxLast') =>
            published' = Append(published,
                                Scene(FrameJsonOf(rxLast').timestamp,
                                      FrameJsonOf(rxLast').frame_id))
       /\ ~(TextStep /\ DecodesToFrame(rxLast')) => published' = published
       /\ OtherStep =>
            /\ published' = published
            /\ bus' = bus
            /\ ingestPc = "streaming" /\ ingestPc' = "streaming"]_vars

\* Two frames were received, the later one with the smaller frame_id and
\* timestamp, then a message that is not text: the scenes are in the order
\* of reception and the client is Streaming.
C32_Witness ==
    /\ published = <<Scene(2000, 1), Scene(1000, 0)>>
    /\ rxOutcome = "Other"
    /\ rxCount = 2
    /\ ingestPc = "streaming"

\* A call has been made on the WAV writer
WavCallStep == wavCalls' = wavCalls + 1

\* C33: WavFileWriter rejects out-of-state calls without changing state.
\* A start_writing made while a recording is open returns an error and
\* leaves the open writer, the current file and sample_count as they were; a
\* write_samples made while no recording is open returns an error and leaves
\* sample_count as it was, with no recording open.
C33_OutOfStateCallsRejected ==
    [][WavCallStep =>
         /\ wavLast'.op = "start_writing" /\ is_writing(wav) =>
              /\ wavLast'.result = "Err"
              /\ wav'.writer = wav.writer
              /\ wav'.current_file = wav.current_file
              /\ wav'.sample_count = wav.sample_count
         /\ wavLast'.op = "write_samples" /\ ~is_writing(wav) =>
              /\ wavLast'.result = "Err"
              /\ wav'.sample_count = wav.sample_count
              /\ ~is_writing(wav')]_vars

\* A recording with two accepted samples is open and the last call, a
\* start_writing, was rejected.
C33_Witness ==
    /\ wavLast.op = "start_writing"
    /\ wavLast.result = "Err"
    /\ is_writing(wav)
    /\ wav.sample_count = 2
    /\ wav.writer[1].written = 2

====
